---- MODULE Spec2Model ----
(***************************************************************************)
(* Model of the SHOE / JAM.V engine core:                                  *)
(*   - ComponentPool<T> (ComponentPool.h, carried by src/README.md 72-193) *)
(*     together with IComponent (src/unnamed/part_000);                    *)
(*   - the loading-screen handshake between AssetManager::Initialize and   *)
(*     Game::DrawLoadingScreen (src/SHOE/Source/Game.cpp);                 *)
(*   - the main thread: Game::Init, then the frame loop with Game::Update, *)
(*     Game::Draw and Game::OnResize;                                      *)
(*   - CollisionManager::Update over the pool of colliders                 *)
(*     (src/SHOE/Source/CollisionManager.cpp).                             *)
(***************************************************************************)
EXTENDS Integers, Sequences, FiniteSets, TLC

(***************************************************************************)
(* Program constants and bounds of the model.                             *)
(***************************************************************************)
POOL_SIZE == 32

\* Instantiate calls explored per run of Spec.
MaxAcquires == 3
\* Free calls with a component that is not active, per run of Spec.
MaxBadFrees == 1
\* Batches of POOL_SIZE instances a pool may create.
MaxBatches == 2
\* Materials known to the asset manager (identity = address order).
NumMaterials == 3
\* Game entities that own components.
NumEntities == 2
\* Instantiate calls explored per run of SpecExhaust.
ExhaustAcquires == 34
\* Free calls explored per run of SpecExhaust.
ExhaustReleases == 2
\* Items the loading thread loads at most.
MaxItems == 3

\* The client area of the window at start, Game::Game.
WindowWidth == 1280
WindowHeight == 720
\* Largest factor by which a resize scales a side of the window.
MaxScale == 1
\* Resizes explored per run.
MaxResizes == 2

\* The timeout of wait_for in DrawLoadingScreen, and the step of the clock.
WaitForMs == 3000
TickMs == 1000

Materials == 1..NumMaterials
Entities == 1..NumEntities
\* Light type values (directional, point, spot).
LightTypes == {0, 1, 2}
PoolTypes == {"MeshRenderer", "Light", "Collider"}
\* An empty ComPtr in the place of a render target.
NoTarget == [height |-> 0, width |-> 0, id |-> 0]
\* Window widths and heights.
Sides == {WindowWidth * i : i \in 1..MaxScale} \cup {WindowHeight * i : i \in 1..MaxScale}
\* enum RTVTypes: the size-dependent render targets.
RTVTypes == {"COLORS_NO_AMBIENT", "COLORS_AMBIENT", "NORMALS", "DEPTHS", "SSAO_RAW",
             "SSAO_BLUR", "REFRACTION_SILHOUETTE", "COMPOSITE"}
\* The lights that cast shadows, named by the map their pass writes.
ShadowLights == {"FLASHLIGHT_SHADOW", "ENV_SHADOW"}

\* nullptr, and a live component of a type other than the pool's T.
Null == 0
Foreign == -1
\* gameEntity of an unbound component.
NoEntity == 0
\* Sort key of an instance that was never bound.
NoKey == -1

VARIABLES
    poolType,            \* the T of ComponentPool<T>
    created,             \* instances made so far by std::make_shared<T>()
    allocated,           \* ComponentPool<T>::allocated  (std::vector)
    unallocated,         \* ComponentPool<T>::unallocated (std::queue)
    gameEntity,          \* IComponent::gameEntity, per instance
    enabled,             \* IComponent::enabled, per instance
    hierarchyIsEnabled,  \* IComponent::hierarchyIsEnabled, per instance
    key,                 \* MeshRenderer material / Light type, per instance
    transparent,         \* Material::transparent, per material
    crashed,             \* the process died on a null dereference
    acquires,            \* history: Instantiate calls made
    acquiredAt,          \* history: per instance, the Instantiate call that bound it
    releases,            \* history: Free calls made on an active component
    badFrees,            \* history: Free calls made on a component not active
    lastOp,              \* history: the call that produced this state
    lastArg,             \* history: its component argument
    repaired,            \* history: Instantiate found the active sequence out of order
    ret                  \* history: the value the last query returned; after
                         \* CollisionManager::Update, the Intersects calls it made

VARIABLES
    assetManagerLoadState,  \* AssetManager::assetManagerLoadState
    singleLoadComplete,     \* AssetManager::singleLoadComplete
    loadingMutex,           \* owner of *Game::loadingMutex, or "free"
    notification,           \* threads blocked on *Game::notification
    loaderPc,               \* position of the loading thread
    screenPc,               \* position of the loading-screen thread
    signals,                \* history: items the loader has signalled
    frames,                 \* history: loading-screen frames presented
    timedOut                \* history: some wait_for returned false

VARIABLES
    waited,                 \* ms the presenter has spent in its current wait_for
    loadError,              \* the loader's error argument for the item just loaded
    errorCode,              \* AssetManager::loaded.errorCode is set
    loadedObjectString,     \* what the last loading-screen frame said of the item
    failures,               \* history: items that failed to load
    failureFrames           \* history: frames that showed a failure

VARIABLES
    mainPc,                 \* position of the main thread
    renderer,               \* Game::renderer is constructed
    mainCamera,             \* Game::mainCamera is fetched
    width,                  \* DXCore::width
    height,                 \* DXCore::height
    projAspect,             \* the main camera's aspect ratio, as <<width, height>>
    windowHeight,           \* Renderer::windowHeight
    windowWidth,            \* Renderer::windowWidth
    renderTargetRTVs,       \* Renderer::renderTargetRTVs, per RTV type
    targetsCreated,         \* render targets created so far
    flashMenuToggle,        \* Game::flashMenuToggle
    lightEnabled,           \* Light::enabled of the shadow-casting lights
    passes,                 \* history: the passes of the current frame, in order
    calls,                  \* history: the calls of the current OnResize, in order
    resizes                 \* history: resize events handled

VARIABLES
    isTrigger               \* Collider::isTrigger: the instances that are trigger boxes

VARIABLES
    collidersWindowEnabled,   \* Game::collidersWindowEnabled
    drawColliders,            \* Renderer::drawColliders
    drawColliderTransforms,   \* Renderer::drawColliderTransforms
    flashShadowCameraMoved    \* history: this Update moved flashShadowCamera

loadVars == <<assetManagerLoadState, singleLoadComplete, loadingMutex, notification,
              loaderPc, screenPc, signals, frames, timedOut>>

poolVars == <<poolType, created, allocated, unallocated, gameEntity, enabled,
              hierarchyIsEnabled, key, transparent, crashed, acquires, acquiredAt,
              releases, badFrees, lastOp, lastArg, repaired, ret>>

statusVars == <<waited, loadError, errorCode, loadedObjectString, failures, failureFrames>>

gameVars == <<mainPc, renderer, mainCamera, width, height, projAspect, windowHeight,
              windowWidth, renderTargetRTVs, targetsCreated, flashMenuToggle,
              lightEnabled, passes, calls, resizes>>

colliderVars == <<isTrigger>>

uiVars == <<collidersWindowEnabled, drawColliders, drawColliderTransforms,
            flashShadowCameraMoved>>

vars == <<poolVars, loadVars, statusVars, gameVars, colliderVars, uiVars>>

\* What the pool's operations leave alone, what the steps of the handshake
\* leave alone, and what the main thread leaves alone.
otherThanPool == <<loadVars, statusVars, gameVars, colliderVars, uiVars>>
otherThanHandshake == <<poolVars, gameVars, colliderVars, uiVars>>
otherThanLoad == <<otherThanHandshake, statusVars>>
otherThanUpdate == <<poolVars, loadVars, statusVars, colliderVars>>
otherThanGame == <<otherThanUpdate, uiVars>>
otherThanColliders == <<loadVars, statusVars, gameVars, uiVars>>

(***************************************************************************)
(* Sequence helpers.                                                       *)
(***************************************************************************)
Range(s) == {s[i] : i \in 1..Len(s)}

InSeq(x, s) == \E i \in 1..Len(s) : s[i] = x

Count(x, s) == Cardinality({i \in 1..Len(s) : s[i] = x})

\* All rearrangements of s.
Perms(s) ==
    LET n == Len(s)
        Bij == {f \in [1..n -> 1..n] : \A i, j \in 1..n : f[i] = f[j] => i = j}
    IN  {[i \in 1..n |-> s[f[i]]] : f \in Bij}

\* f extended to 1..n, new points mapped to d.
Extend(f, n, d) == [c \in 1..n |-> IF c \in DOMAIN f THEN f[c] ELSE d]

(***************************************************************************)
(* IComponent.                                                             *)
(***************************************************************************)
\* IComponent::Bind: the instance now belongs to ge.
Bind(ents, component, ge) == [ents EXCEPT ![component] = ge]

\* IComponent::Free: the instance belongs to no entity. A component of
\* another pool is not part of this pool's state.
Unbind(ents, component) ==
    IF component \in DOMAIN ents THEN [ents EXCEPT ![component] = NoEntity] ELSE ents

\* What IComponent::Free leaves of the sort key: an unbound instance carries
\* none until Bind gives it one.
Forget(k, component) ==
    IF component \in DOMAIN k THEN [k EXCEPT ![component] = NoKey] ELSE k

IsEnabled(component) == enabled[component] /\ hierarchyIsEnabled[component]

\* std::dynamic_pointer_cast<T>(component)
Cast(component) == IF component = Foreign THEN Null ELSE component

(***************************************************************************)
(* ComponentPool<T>::Sort and its comparators.                             *)
(***************************************************************************)
GetMaterial(k, component) == k[component]

GetTransparent(tr, m) == tr[m]

GetType(k, component) == k[component]

MeshRendererLessSwapped(k, tr, a, b) ==
    IF GetTransparent(tr, GetMaterial(k, a)) # GetTransparent(tr, GetMaterial(k, b))
    THEN GetTransparent(tr, GetMaterial(k, a))
    ELSE GetMaterial(k, a) < GetMaterial(k, b)

\* The lambda of ComponentPool<MeshRenderer>::Sort.
MeshRendererLess(k, tr, a, b) ==
    IF GetTransparent(tr, GetMaterial(k, a)) # GetTransparent(tr, GetMaterial(k, b))
    THEN GetTransparent(tr, GetMaterial(k, b))
    ELSE GetMaterial(k, a) < GetMaterial(k, b)

LightLessAscending(k, a, b) == GetType(k, a) < GetType(k, b)

\* The lambda of ComponentPool<Light>::Sort.
LightLess(k, a, b) == GetType(k, a) > GetType(k, b)

\* ComponentPool<T>::Sort, by specialisation: the possible results. std::sort
\* leaves some rearrangement in which no element is less than an earlier one;
\* the order of equivalent elements is unspecified. The default Sort() {} does
\* nothing.
Sort(type, s, k, tr) ==
    LET Less(a, b) ==
            CASE type = "MeshRenderer" -> MeshRendererLess(k, tr, a, b)
              [] type = "Light"        -> LightLess(k, a, b)
              [] OTHER                 -> FALSE
    IN  IF type \in {"MeshRenderer", "Light"}
        THEN {p \in Perms(s) : \A i, j \in 1..Len(p) : i < j => ~Less(p[j], p[i])}
        ELSE {s}

(***************************************************************************)
(* ComponentPool<T> helpers.                                               *)
(***************************************************************************)
NewBatch(n) == [i \in 1..POOL_SIZE |-> n + i]

RefillShort(queue, n) ==
    IF Len(queue) = 0 THEN [i \in 1..(POOL_SIZE - 1) |-> n + i] ELSE queue

\* Instantiate, lines 117-121: a new batch when nothing is unallocated.
Refill(queue, n) == IF Len(queue) = 0 THEN NewBatch(n) ELSE queue

\* The erase left out.
EraseSkipped(s, x) == s

EraseAll(s, x) == <<>>

EraseSwapPop(s, x) ==
    IF InSeq(x, s)
    THEN LET i == CHOOSE n \in 1..Len(s) : s[n] = x
             moved == [s EXCEPT ![i] = s[Len(s)]]
         IN  SubSeq(moved, 1, Len(s) - 1)
    ELSE s

\* Removal by position instead of identity.
EraseFirst(s, x) ==
    IF InSeq(x, s) THEN Tail(s) ELSE s

\* allocated.erase(std::remove(begin, end, x), end)
Erase(s, x) == SelectSeq(s, LAMBDA y : y # x)

RECURSIVE EnabledFrom(_, _)
EnabledFrom(s, i) ==
    IF i > Len(s) THEN <<>>
    ELSE IF IsEnabled(s[i]) THEN <<s[i]>> \o EnabledFrom(s, i + 1)
         ELSE EnabledFrom(s, i + 1)

GetActiveCount == Len(allocated)

GetAll == allocated

GetAllEnabledUnfiltered == allocated

\* The loop of GetAllEnabled over allocated.
GetAllEnabled == EnabledFrom(allocated, 1)

(***************************************************************************)
(* Initial state: the static members after construction.                   *)
(***************************************************************************)
PoolInit ==
    /\ poolType \in PoolTypes
    /\ created = 0
    /\ allocated = <<>>
    /\ unallocated = <<>>
    /\ gameEntity = <<>>
    /\ enabled = <<>>
    /\ hierarchyIsEnabled = <<>>
    /\ key = <<>>
    /\ transparent = [m \in Materials |-> FALSE]
    /\ crashed = FALSE
    /\ acquires = 0
    /\ acquiredAt = <<>>
    /\ releases = 0
    /\ badFrees = 0
    /\ lastOp = "none"
    /\ lastArg = Null
    /\ repaired = FALSE
    /\ ret = <<>>

\* Game::Init up to the start of the two threads.
LoadInit ==
    /\ assetManagerLoadState = "INITIALIZING"
    /\ singleLoadComplete = FALSE
    /\ loadingMutex = "free"
    /\ notification = {}
    /\ loaderPc = "load"
    /\ screenPc = "check"
    /\ signals = 0
    /\ frames = 0
    /\ timedOut = FALSE

\* The status record and the presenter's clock before the first item.
StatusInit ==
    /\ waited = 0
    /\ loadError = FALSE
    /\ errorCode = FALSE
    /\ loadedObjectString = "none"
    /\ failures = 0
    /\ failureFrames = 0

\* The main thread in Game::Init, blocked in the first join; the window has
\* its size, no Renderer exists, the flashlight is off.
GameInit ==
    /\ mainPc = "joinScreen"
    /\ renderer = FALSE
    /\ mainCamera = FALSE
    /\ width = WindowWidth
    /\ height = WindowHeight
    /\ projAspect = <<width, height>>
    /\ windowHeight = 0
    /\ windowWidth = 0
    /\ renderTargetRTVs = [t \in RTVTypes |-> NoTarget]
    /\ targetsCreated = 0
    /\ flashMenuToggle = FALSE
    /\ lightEnabled = [l \in ShadowLights |-> TRUE]
    /\ passes = <<>>
    /\ calls = <<>>
    /\ resizes = 0

\* No collider is a trigger box.
ColliderInit == isTrigger = {}

\* The Collider Inspector is closed and the two debug toggles of the Renderer
\* are off.
UiInit ==
    /\ collidersWindowEnabled = FALSE
    /\ drawColliders = FALSE
    /\ drawColliderTransforms = FALSE
    /\ flashShadowCameraMoved = FALSE

Init == PoolInit /\ LoadInit /\ StatusInit /\ GameInit /\ ColliderInit /\ UiInit

(***************************************************************************)
(* ComponentPool<T>::Instantiate(gameEntity). k is the sort key the bound  *)
(* component carries when Sort() runs.                                     *)
(***************************************************************************)
Instantiate(ge, k) ==
    LET pool == Refill(unallocated, created)
        made == created + (Len(pool) - Len(unallocated))
        component == Head(pool)
    IN  /\ ~crashed
        /\ created' = made
        /\ unallocated' = Tail(pool)
        /\ acquires' = acquires + 1
        /\ acquiredAt' = IF component = Null
                         THEN Extend(acquiredAt, made, 0)
                         ELSE [Extend(acquiredAt, made, 0) EXCEPT ![component] = acquires + 1]
        /\ lastOp' = "Instantiate"
        /\ lastArg' = component
        /\ repaired' = (allocated \notin Sort(poolType, allocated, key, transparent))
        /\ enabled' = Extend(enabled, made, TRUE)
        /\ hierarchyIsEnabled' = Extend(hierarchyIsEnabled, made, TRUE)
        /\ IF component = Null
           THEN \* component->Bind on nullptr
                /\ crashed' = TRUE
                /\ allocated' = Append(allocated, component)
                /\ gameEntity' = Extend(gameEntity, made, NoEntity)
                /\ key' = Extend(key, made, NoKey)
           ELSE /\ crashed' = FALSE
                /\ gameEntity' = Bind(Extend(gameEntity, made, NoEntity), component, ge)
                /\ key' = [Extend(key, made, NoKey) EXCEPT ![component] = k]
                /\ allocated' \in Sort(poolType, Append(allocated, component), key', transparent)
        /\ ret' = <<>>
        /\ UNCHANGED <<poolType, transparent, releases, badFrees>>
        /\ UNCHANGED otherThanPool

(***************************************************************************)
(* ComponentPool<T>::Free(component).                                      *)
(***************************************************************************)
Free(component) ==
    /\ ~crashed
    /\ gameEntity' = Unbind(gameEntity, component)
    /\ key' = Forget(key, component)
    /\ acquiredAt' = IF component \in DOMAIN acquiredAt
                     THEN [acquiredAt EXCEPT ![component] = 0]
                     ELSE acquiredAt
    /\ unallocated' = Append(unallocated, Cast(component))
    /\ allocated' = Erase(allocated, Cast(component))
    /\ IF InSeq(component, allocated)
       THEN releases' = releases + 1 /\ UNCHANGED badFrees
       ELSE badFrees' = badFrees + 1 /\ UNCHANGED releases
    /\ lastOp' = "Free"
    /\ lastArg' = component
    /\ UNCHANGED <<poolType, created, enabled, hierarchyIsEnabled, transparent,
                   crashed, acquires>>
    /\ ret' = <<>>
    /\ repaired' = FALSE
    /\ UNCHANGED otherThanPool

\* The components a caller can hold that are not active: the next free
\* instance, the most recently released one, one of another type.
Inactive ==
    (IF Len(unallocated) > 0
     THEN {Head(unallocated), unallocated[Len(unallocated)]} \ {Null}
     ELSE {}) \cup {Foreign}

(***************************************************************************)
(* Queries.                                                                *)
(***************************************************************************)
CallGetAll ==
    /\ ~crashed
    /\ ret' = GetAll
    /\ repaired' = FALSE
    /\ UNCHANGED otherThanPool
    /\ lastOp' = "GetAll"
    /\ lastArg' = Null
    /\ UNCHANGED <<poolType, created, allocated, unallocated, gameEntity, enabled,
                   hierarchyIsEnabled, key, transparent, crashed, acquires,
                   acquiredAt, releases, badFrees>>

CallGetAllEnabled ==
    /\ ~crashed
    /\ ret' = GetAllEnabled
    /\ repaired' = FALSE
    /\ UNCHANGED otherThanPool
    /\ lastOp' = "GetAllEnabled"
    /\ lastArg' = Null
    /\ UNCHANGED <<poolType, created, allocated, unallocated, gameEntity, enabled,
                   hierarchyIsEnabled, key, transparent, crashed, acquires,
                   acquiredAt, releases, badFrees>>

(***************************************************************************)
(* Changes to bound components made by the editor UI.                      *)
(***************************************************************************)
\* IComponent::SetEnabled, Game::RenderUI
SetEnabled(component, b) ==
    /\ ~crashed
    /\ InSeq(component, allocated)
    /\ enabled[component] # b
    /\ enabled' = [enabled EXCEPT ![component] = b]
    /\ lastOp' = "SetEnabled"
    /\ lastArg' = Null
    /\ UNCHANGED <<poolType, created, allocated, unallocated, gameEntity,
                   hierarchyIsEnabled, key, transparent, crashed, acquires,
                   acquiredAt, releases, badFrees>>
    /\ ret' = <<>>
    /\ repaired' = FALSE
    /\ UNCHANGED otherThanPool

SetMaterialResorts(component, m) ==
    /\ ~crashed
    /\ poolType = "MeshRenderer"
    /\ InSeq(component, allocated)
    /\ key[component] # m
    /\ key' = [key EXCEPT ![component] = m]
    /\ allocated' \in Sort(poolType, allocated, key', transparent)
    /\ lastOp' = "SetMaterial"
    /\ lastArg' = Null
    /\ UNCHANGED <<poolType, created, unallocated, gameEntity, enabled,
                   hierarchyIsEnabled, transparent, crashed, acquires, acquiredAt,
                   releases, badFrees>>
    /\ ret' = <<>>
    /\ repaired' = FALSE
    /\ UNCHANGED otherThanPool

\* MeshRenderer::SetMaterial, the "Swap" button of Game::RenderUI
SetMaterial(component, m) ==
    /\ ~crashed
    /\ poolType = "MeshRenderer"
    /\ InSeq(component, allocated)
    /\ key[component] # m
    /\ key' = [key EXCEPT ![component] = m]
    /\ lastOp' = "SetMaterial"
    /\ lastArg' = Null
    /\ UNCHANGED <<poolType, created, allocated, unallocated, gameEntity, enabled,
                   hierarchyIsEnabled, transparent, crashed, acquires, acquiredAt,
                   releases, badFrees>>
    /\ ret' = <<>>
    /\ repaired' = FALSE
    /\ UNCHANGED otherThanPool

\* Material::SetTransparent
SetTransparent(m, b) ==
    /\ ~crashed
    /\ poolType = "MeshRenderer"
    /\ transparent[m] # b
    /\ transparent' = [transparent EXCEPT ![m] = b]
    /\ lastOp' = "SetTransparent"
    /\ lastArg' = Null
    /\ UNCHANGED <<poolType, created, allocated, unallocated, gameEntity, enabled,
                   hierarchyIsEnabled, key, crashed, acquires, acquiredAt, releases, badFrees>>
    /\ ret' = <<>>
    /\ repaired' = FALSE
    /\ UNCHANGED otherThanPool

\* Light::SetType
SetType(component, t) ==
    /\ ~crashed
    /\ poolType = "Light"
    /\ InSeq(component, allocated)
    /\ key[component] # t
    /\ key' = [key EXCEPT ![component] = t]
    /\ lastOp' = "SetType"
    /\ lastArg' = Null
    /\ UNCHANGED <<poolType, created, allocated, unallocated, gameEntity, enabled,
                   hierarchyIsEnabled, transparent, crashed, acquires, acquiredAt,
                   releases, badFrees>>
    /\ ret' = <<>>
    /\ repaired' = FALSE
    /\ UNCHANGED otherThanPool

\* Collider::SetTriggerStatus, the "Is this a TriggerBox?" checkbox of
\* Game::RenderUI
SetTriggerStatus(component, b) ==
    /\ ~crashed
    /\ poolType = "Collider"
    /\ InSeq(component, allocated)
    /\ (component \in isTrigger) # b
    /\ isTrigger' = IF b THEN isTrigger \cup {component} ELSE isTrigger \ {component}
    /\ lastOp' = "SetTriggerStatus"
    /\ lastArg' = Null
    /\ ret' = <<>>
    /\ repaired' = FALSE
    /\ UNCHANGED <<poolType, created, allocated, unallocated, gameEntity, enabled,
                   hierarchyIsEnabled, key, transparent, crashed, acquires, acquiredAt,
                   releases, badFrees>>
    /\ UNCHANGED otherThanColliders

(***************************************************************************)
(* CollisionManager::Update.                                               *)
(***************************************************************************)
TestedEitherWay(a, b) == (a \in isTrigger) # (b \in isTrigger)

\* The condition of lines 47-48 up to its last operand: Intersects is
\* evaluated when !a->GetTriggerStatus() && b->GetTriggerStatus() holds.
Tested(a, b) == a \notin isTrigger /\ b \in isTrigger

\* The loop over j of lines 38-52, from j on, for the collider c[i]: the
\* Intersects calls it makes, as <<a, b>>.
RECURSIVE InnerLoop(_, _, _)
InnerLoop(c, i, j) ==
    IF j > Len(c)
    THEN <<>>
    ELSE (IF c[i] # c[j] /\ Tested(c[i], c[j]) THEN << <<c[i], c[j]>> >> ELSE <<>>)
            \o InnerLoop(c, i, j + 1)

\* The loop over i of lines 35-53, from i on.
RECURSIVE OuterLoop(_, _)
OuterLoop(c, i) ==
    IF i > Len(c) THEN <<>> ELSE InnerLoop(c, i, 1) \o OuterLoop(c, i + 1)

\* CollisionManager::Update: every ordered pair of the enabled colliders is
\* visited; a hit has no effect.
CollisionManagerUpdate ==
    /\ ~crashed
    /\ poolType = "Collider"
    /\ ret' = OuterLoop(GetAllEnabled, 1)
    /\ lastOp' = "CollisionManager::Update"
    /\ lastArg' = Null
    /\ repaired' = FALSE
    /\ UNCHANGED <<poolType, created, allocated, unallocated, gameEntity, enabled,
                   hierarchyIsEnabled, key, transparent, crashed, acquires, acquiredAt,
                   releases, badFrees>>
    /\ UNCHANGED isTrigger
    /\ UNCHANGED otherThanColliders

(***************************************************************************)
(* std::mutex and std::condition_variable as the two threads use them.     *)
(***************************************************************************)
\* notify_all: every blocked thread becomes runnable and has to take the
\* mutex again before it returns from its wait.
WokenPc(pc) == IF pc = "blocked" THEN "woken" ELSE pc

(***************************************************************************)
(* The loading thread: AssetManager::Initialize, which calls               *)
(* SetLoadedAndWait after each item.                                       *)
(***************************************************************************)
\* One more item is loaded, or fails to load; either way the loader goes on
\* to report it.
LoaderLoad ==
    /\ loaderPc = "load"
    /\ signals < MaxItems
    /\ loaderPc' = "lock"
    /\ \E failed \in BOOLEAN :
          /\ loadError' = failed
          /\ failures' = IF failed THEN failures + 1 ELSE failures
    /\ UNCHANGED <<assetManagerLoadState, singleLoadComplete, loadingMutex, notification,
                   screenPc, signals, frames, timedOut>>
    /\ UNCHANGED <<waited, errorCode, loadedObjectString, failureFrames>>
    /\ UNCHANGED otherThanHandshake

\* SetLoadedAndWait: take the mutex that guards the flag.
LoaderLock ==
    /\ loaderPc = "lock"
    /\ loadingMutex = "free"
    /\ loadingMutex' = "loader"
    /\ loaderPc' = "signal"
    /\ UNCHANGED <<assetManagerLoadState, singleLoadComplete, notification, screenPc,
                   signals, frames, timedOut>>
    /\ UNCHANGED otherThanLoad

\* SetLoadedAndWait: fill the status record, set the flag and signal.
LoaderSignal ==
    /\ loaderPc = "signal"
    /\ errorCode' = loadError
    /\ singleLoadComplete' = TRUE
    /\ signals' = signals + 1
    /\ notification' = {}
    /\ screenPc' = IF "screen" \in notification THEN WokenPc(screenPc) ELSE screenPc
    /\ loaderPc' = "await"
    /\ UNCHANGED <<assetManagerLoadState, loadingMutex, frames, timedOut>>
    /\ UNCHANGED <<waited, loadError, loadedObjectString, failures, failureFrames>>
    /\ UNCHANGED otherThanHandshake

\* SetLoadedAndWait: wait until the presenter has cleared the flag.
LoaderAwait ==
    /\ loaderPc = "await"
    /\ IF singleLoadComplete
       THEN /\ loadingMutex' = "free"
            /\ notification' = notification \cup {"loader"}
            /\ loaderPc' = "blocked"
       ELSE /\ loaderPc' = "unlock"
            /\ UNCHANGED <<loadingMutex, notification>>
    /\ UNCHANGED <<assetManagerLoadState, singleLoadComplete, screenPc, signals, frames,
                   timedOut>>
    /\ UNCHANGED otherThanLoad

\* The loader, notified, takes the mutex again and re-tests the flag.
LoaderWake ==
    /\ loaderPc = "woken"
    /\ loadingMutex = "free"
    /\ loadingMutex' = "loader"
    /\ loaderPc' = "await"
    /\ UNCHANGED <<assetManagerLoadState, singleLoadComplete, notification, screenPc,
                   signals, frames, timedOut>>
    /\ UNCHANGED otherThanLoad

\* SetLoadedAndWait returns.
LoaderUnlock ==
    /\ loaderPc = "unlock"
    /\ loadingMutex' = "free"
    /\ loaderPc' = "load"
    /\ UNCHANGED <<assetManagerLoadState, singleLoadComplete, notification, screenPc,
                   signals, frames, timedOut>>
    /\ UNCHANGED otherThanLoad

\* Every item is loaded: the load state leaves INITIALIZING.
LoaderFinish ==
    /\ loaderPc = "load"
    /\ assetManagerLoadState' = "SINGLE_CREATION"
    /\ loaderPc' = "done"
    /\ UNCHANGED <<singleLoadComplete, loadingMutex, notification, screenPc, signals,
                   frames, timedOut>>
    /\ UNCHANGED otherThanLoad

(***************************************************************************)
(* The loading-screen thread: Game::DrawLoadingScreen.                     *)
(***************************************************************************)
\* while (globalAssets.GetAMLoadState() == AMLoadState::INITIALIZING)
ScreenCheck ==
    /\ screenPc = "check"
    /\ screenPc' = IF assetManagerLoadState = "INITIALIZING" THEN "lock" ELSE "done"
    /\ UNCHANGED <<assetManagerLoadState, singleLoadComplete, loadingMutex, notification,
                   loaderPc, signals, frames, timedOut>>
    /\ UNCHANGED otherThanLoad

\* std::unique_lock<std::mutex> lock(*loadingMutex); wait_for starts its
\* time(3000).
ScreenLock ==
    /\ screenPc = "lock"
    /\ loadingMutex = "free"
    /\ loadingMutex' = "screen"
    /\ screenPc' = "wait"
    /\ waited' = 0
    /\ UNCHANGED <<assetManagerLoadState, singleLoadComplete, notification, loaderPc,
                   signals, frames, timedOut>>
    /\ UNCHANGED <<loadError, errorCode, loadedObjectString, failures, failureFrames>>
    /\ UNCHANGED otherThanHandshake

ScreenWaitIgnoresFlag ==
    /\ screenPc = "wait"
    /\ screenPc' = "draw"
    /\ UNCHANGED <<assetManagerLoadState, singleLoadComplete, loadingMutex, notification,
                   loaderPc, signals, frames, timedOut>>
    /\ UNCHANGED otherThanLoad

\* wait_for: the predicate is tested with the mutex held; when it is false
\* the mutex is released and the thread blocks.
ScreenWait ==
    /\ screenPc = "wait"
    /\ IF singleLoadComplete
       THEN /\ screenPc' = "draw"
            /\ UNCHANGED <<loadingMutex, notification>>
       ELSE /\ loadingMutex' = "free"
            /\ notification' = notification \cup {"screen"}
            /\ screenPc' = "blocked"
    /\ UNCHANGED <<assetManagerLoadState, singleLoadComplete, loaderPc, signals, frames,
                   timedOut>>
    /\ UNCHANGED otherThanLoad

\* wait_for, notified: take the mutex again and re-test the predicate.
ScreenWake ==
    /\ screenPc = "woken"
    /\ loadingMutex = "free"
    /\ loadingMutex' = "screen"
    /\ screenPc' = "wait"
    /\ UNCHANGED <<assetManagerLoadState, singleLoadComplete, notification, loaderPc,
                   signals, frames, timedOut>>
    /\ UNCHANGED otherThanLoad

\* Time passes while the presenter is in wait_for.
Tick ==
    /\ screenPc \in {"blocked", "woken"}
    /\ waited < WaitForMs
    /\ waited' = IF waited + TickMs < WaitForMs THEN waited + TickMs ELSE WaitForMs
    /\ UNCHANGED loadVars
    /\ UNCHANGED <<loadError, errorCode, loadedObjectString, failures, failureFrames>>
    /\ UNCHANGED otherThanHandshake

ScreenExpireNever ==
    /\ FALSE
    /\ UNCHANGED vars

ScreenExpireEarly ==
    /\ screenPc \in {"blocked", "woken"}
    /\ notification' = notification \ {"screen"}
    /\ screenPc' = "expired"
    /\ UNCHANGED <<assetManagerLoadState, singleLoadComplete, loadingMutex, loaderPc,
                   signals, frames, timedOut>>
    /\ UNCHANGED otherThanLoad

\* wait_for, after 3000 ms: stop waiting.
ScreenExpire ==
    /\ screenPc \in {"blocked", "woken"}
    /\ waited >= WaitForMs
    /\ notification' = notification \ {"screen"}
    /\ screenPc' = "expired"
    /\ UNCHANGED <<assetManagerLoadState, singleLoadComplete, loadingMutex, loaderPc,
                   signals, frames, timedOut>>
    /\ UNCHANGED otherThanLoad

ScreenTimeoutIgnoresFlag ==
    /\ screenPc = "expired"
    /\ loadingMutex = "free"
    /\ loadingMutex' = "screen"
    /\ screenPc' = "draw"
    /\ UNCHANGED timedOut
    /\ UNCHANGED <<assetManagerLoadState, singleLoadComplete, notification, loaderPc,
                   signals, frames>>
    /\ UNCHANGED otherThanLoad

\* wait_for, timed out: take the mutex again and return the predicate.
ScreenTimeout ==
    /\ screenPc = "expired"
    /\ loadingMutex = "free"
    /\ loadingMutex' = "screen"
    /\ IF singleLoadComplete
       THEN screenPc' = "draw" /\ UNCHANGED timedOut
       ELSE screenPc' = "clear" /\ timedOut' = TRUE
    /\ UNCHANGED <<assetManagerLoadState, singleLoadComplete, notification, loaderPc,
                   signals, frames>>
    /\ UNCHANGED otherThanLoad

\* The text of the status line, lines 1017-1032.
ObjectString(error) == IF error THEN "Failed to Load" ELSE "Loaded"

ScreenDrawAbortsOnFailure ==
    /\ screenPc = "draw"
    /\ frames' = IF errorCode THEN frames ELSE frames + 1
    /\ loadedObjectString' = IF errorCode THEN loadedObjectString ELSE ObjectString(FALSE)
    /\ screenPc' = "clear"
    /\ UNCHANGED <<assetManagerLoadState, singleLoadComplete, loadingMutex, notification,
                   loaderPc, signals, timedOut>>
    /\ UNCHANGED <<waited, loadError, errorCode, failures, failureFrames>>
    /\ UNCHANGED otherThanHandshake

\* The loading-screen frame: the status line from the status record, clear,
\* draw the three strings, Present.
ScreenDraw ==
    /\ screenPc = "draw"
    /\ frames' = frames + 1
    /\ loadedObjectString' = ObjectString(errorCode)
    /\ failureFrames' = IF errorCode THEN failureFrames + 1 ELSE failureFrames
    /\ screenPc' = "clear"
    /\ UNCHANGED <<assetManagerLoadState, singleLoadComplete, loadingMutex, notification,
                   loaderPc, signals, timedOut>>
    /\ UNCHANGED <<waited, loadError, errorCode, failures>>
    /\ UNCHANGED otherThanHandshake

ScreenClearSkipped ==
    /\ screenPc = "clear"
    /\ screenPc' = "unlock"
    /\ UNCHANGED <<assetManagerLoadState, singleLoadComplete, loadingMutex, notification,
                   loaderPc, signals, frames, timedOut>>
    /\ UNCHANGED otherThanLoad

\* globalAssets.SetSingleLoadComplete(false);
ScreenClear ==
    /\ screenPc = "clear"
    /\ singleLoadComplete' = FALSE
    /\ screenPc' = "unlock"
    /\ UNCHANGED <<assetManagerLoadState, loadingMutex, notification, loaderPc, signals,
                   frames, timedOut>>
    /\ UNCHANGED otherThanLoad

\* lock.unlock();
ScreenUnlock ==
    /\ screenPc = "unlock"
    /\ loadingMutex' = "free"
    /\ screenPc' = "notify"
    /\ UNCHANGED <<assetManagerLoadState, singleLoadComplete, notification, loaderPc,
                   signals, frames, timedOut>>
    /\ UNCHANGED otherThanLoad

\* notification->notify_all();
ScreenNotify ==
    /\ screenPc = "notify"
    /\ notification' = {}
    /\ loaderPc' = IF "loader" \in notification THEN WokenPc(loaderPc) ELSE loaderPc
    /\ screenPc' = "check"
    /\ UNCHANGED <<assetManagerLoadState, singleLoadComplete, loadingMutex, signals,
                   frames, timedOut>>
    /\ UNCHANGED otherThanLoad

(***************************************************************************)
(* The main thread: Game::Init from the two joins on.                      *)
(***************************************************************************)
MainJoinScreenSkipped ==
    /\ mainPc = "joinScreen"
    /\ mainPc' = "joinLoader"
    /\ UNCHANGED <<renderer, mainCamera, width, height, projAspect, windowHeight,
                   windowWidth, renderTargetRTVs, targetsCreated, flashMenuToggle,
                   lightEnabled, passes, calls, resizes>>
    /\ UNCHANGED otherThanGame

\* screenThread.join();
MainJoinScreen ==
    /\ mainPc = "joinScreen"
    /\ screenPc = "done"
    /\ mainPc' = "joinLoader"
    /\ UNCHANGED <<renderer, mainCamera, width, height, projAspect, windowHeight,
                   windowWidth, renderTargetRTVs, targetsCreated, flashMenuToggle,
                   lightEnabled, passes, calls, resizes>>
    /\ UNCHANGED otherThanGame

\* loadingThread.join();
MainJoinLoader ==
    /\ mainPc = "joinLoader"
    /\ loaderPc = "done"
    /\ mainPc' = "fetch"
    /\ UNCHANGED <<renderer, mainCamera, width, height, projAspect, windowHeight,
                   windowWidth, renderTargetRTVs, targetsCreated, flashMenuToggle,
                   lightEnabled, passes, calls, resizes>>
    /\ UNCHANGED otherThanGame

\* GetCameraByName: the cameras exist once the loader has created them.
GetCameraByName == loaderPc = "done"

\* Game::Init, lines 95-123: the cameras are fetched, the UI state is reset.
MainFetchCameras ==
    /\ mainPc = "fetch"
    /\ mainCamera' = GetCameraByName
    /\ flashMenuToggle' = FALSE
    /\ mainPc' = "construct"
    /\ UNCHANGED <<renderer, width, height, projAspect, windowHeight, windowWidth,
                   renderTargetRTVs, targetsCreated, lightEnabled, passes, calls,
                   resizes>>
    /\ UNCHANGED otherThanGame

MainConstructRendererLater ==
    /\ mainPc = "construct"
    /\ mainPc' = "update"
    /\ UNCHANGED <<renderer, mainCamera, width, height, projAspect, windowHeight,
                   windowWidth, renderTargetRTVs, targetsCreated, flashMenuToggle,
                   lightEnabled, passes, calls, resizes>>
    /\ UNCHANGED otherThanGame

\* Renderer::InitRenderTargetViews: every size-dependent target is created
\* anew with the given size; n targets exist already.
NewTargets(h, w, n) == [t \in RTVTypes |-> [height |-> h, width |-> w, id |-> n + 1]]

\* Game::Init, lines 128-134: std::make_unique<Renderer>(height, width, ...).
\* Init returns and the frame loop starts.
MainConstructRenderer ==
    /\ mainPc = "construct"
    /\ renderer' = TRUE
    /\ windowHeight' = height
    /\ windowWidth' = width
    /\ renderTargetRTVs' = NewTargets(height, width, targetsCreated)
    /\ targetsCreated' = targetsCreated + 1
    /\ mainPc' = "update"
    /\ UNCHANGED <<mainCamera, width, height, projAspect, flashMenuToggle, lightEnabled,
                   passes, calls, resizes>>
    /\ UNCHANGED otherThanGame

(***************************************************************************)
(* The frame loop: Game::Update, then Game::Draw.                          *)
(***************************************************************************)
\* The light editor of Game::RenderUI, lines 265-267: the checkbox value is
\* written to the edited light. edit is <<light, value>>, the light "none"
\* when the editor is closed.
LightEditor(lights, edit) ==
    IF edit[1] = "none" THEN lights ELSE [lights EXCEPT ![edit[1]] = edit[2]]

FlashlightOnlySwitchesOn(lights, toggle) ==
    IF toggle THEN [lights EXCEPT !["FLASHLIGHT_SHADOW"] = TRUE] ELSE lights

\* Game::Flashlight, lines 906-911: the flashlight follows the toggle.
Flashlight(lights, toggle) == [lights EXCEPT !["FLASHLIGHT_SHADOW"] = toggle]

\* What the user can do in the light editor during one frame.
LightEdits == ({"none"} \cup ShadowLights) \X BOOLEAN

\* The Collider Inspector of Game::RenderUI, lines 758-764. Each checkbox
\* shows a local copy of its toggle, a click on it inverts the copy, and the
\* copy is stored back; the copy of the transforms toggle is and-ed with the
\* colliders value before its checkbox is shown. The result is <<drawColliders,
\* drawColliderTransforms>>.
ColliderInspector(colliders, transforms, click) ==
    LET UIDrawColliders == IF click = "Draw Colliders?" THEN ~colliders ELSE colliders
        masked == transforms /\ UIDrawColliders
        UIDrawColliderTransforms ==
            IF click = "Draw Colliders' Transforms?" THEN ~masked ELSE masked
    IN  <<UIDrawColliders, UIDrawColliderTransforms>>

\* What one mouse click of a frame can land on: nothing, one of the two
\* checkboxes of the inspector, or the "Colliders" item of the Edit menu.
UiClicks == {"none", "Draw Colliders?", "Draw Colliders' Transforms?", "Colliders"}

\* Game::Update: RenderUI with the light editor, the Collider Inspector, the
\* Edit menu and the "Toggle Flashlight" menu item, then Flashlight() with the
\* ToggleFlashlight key. The inspector runs before the menu bar, so a click on
\* "Colliders" opens or closes it from the next frame on.
GameUpdate(edit, menu, pressed, click) ==
    LET afterMenu == IF menu THEN ~flashMenuToggle ELSE flashMenuToggle
        afterKey == IF pressed THEN ~afterMenu ELSE afterMenu
        inspected == IF collidersWindowEnabled
                     THEN ColliderInspector(drawColliders, drawColliderTransforms, click)
                     ELSE <<drawColliders, drawColliderTransforms>>
    IN  /\ mainPc = "update"
        /\ click \in {"Draw Colliders?", "Draw Colliders' Transforms?"}
              => collidersWindowEnabled
        /\ drawColliders' = inspected[1]
        /\ drawColliderTransforms' = inspected[2]
        /\ collidersWindowEnabled' = IF click = "Colliders"
                                     THEN ~collidersWindowEnabled
                                     ELSE collidersWindowEnabled
        /\ flashMenuToggle' = afterKey
        /\ lightEnabled' = Flashlight(LightEditor(lightEnabled, edit), afterKey)
        /\ flashShadowCameraMoved' = afterKey
        /\ passes' = <<>>
        /\ mainPc' = "draw"
        /\ UNCHANGED <<renderer, mainCamera, width, height, projAspect, windowHeight,
                       windowWidth, renderTargetRTVs, targetsCreated, calls, resizes>>
        /\ UNCHANGED otherThanUpdate

\* Renderer::RenderShadows(shadowCam, type)
RenderShadows(type) == <<type>>

\* Renderer::Draw(camera, totalTime): the passes it issues, in order.
RendererDraw == <<"DepthPrepass", "MainColorPass", "SSAOPass", "CompositePass", "Present">>

GameDrawShadowsLast ==
    /\ mainPc = "draw"
    /\ passes' = RendererDraw
                    \o (IF flashMenuToggle THEN RenderShadows("FLASHLIGHT_SHADOW") ELSE <<>>)
                    \o RenderShadows("ENV_SHADOW")
    /\ mainPc' = "update"
    /\ UNCHANGED <<renderer, mainCamera, width, height, projAspect, windowHeight,
                   windowWidth, renderTargetRTVs, targetsCreated, flashMenuToggle,
                   lightEnabled, calls, resizes>>
    /\ UNCHANGED otherThanGame

\* Game::Draw
GameDraw ==
    /\ mainPc = "draw"
    /\ passes' = (IF flashMenuToggle THEN RenderShadows("FLASHLIGHT_SHADOW") ELSE <<>>)
                    \o RenderShadows("ENV_SHADOW")
                    \o RendererDraw
    /\ mainPc' = "update"
    /\ UNCHANGED <<renderer, mainCamera, width, height, projAspect, windowHeight,
                   windowWidth, renderTargetRTVs, targetsCreated, flashMenuToggle,
                   lightEnabled, calls, resizes>>
    /\ UNCHANGED otherThanGame

(***************************************************************************)
(* A resize of the window: the message handler stores the new client size  *)
(* and calls Game::OnResize.                                               *)
(***************************************************************************)
\* The window message: the new size is stored, OnResize is entered.
WindowSized(w, h) ==
    /\ mainPc = "update"
    /\ resizes < MaxResizes
    /\ width' = w
    /\ height' = h
    /\ resizes' = resizes + 1
    /\ calls' = <<>>
    /\ mainPc' = "onResize"
    /\ UNCHANGED <<renderer, mainCamera, projAspect, windowHeight, windowWidth,
                   renderTargetRTVs, targetsCreated, flashMenuToggle, lightEnabled,
                   passes>>
    /\ UNCHANGED otherThanGame

\* Camera::UpdateProjectionMatrix(aspectRatio, type), aspectRatio = w / h
UpdateProjectionMatrix(w, h) == <<w, h>>

OnResizeCameraSkipped ==
    /\ mainPc = "onResize"
    /\ mainPc' = "preResize"
    /\ UNCHANGED <<renderer, mainCamera, width, height, projAspect, windowHeight,
                   windowWidth, renderTargetRTVs, targetsCreated, flashMenuToggle,
                   lightEnabled, passes, calls, resizes>>
    /\ UNCHANGED otherThanGame

\* OnResize, lines 936-938
OnResizeCamera ==
    /\ mainPc = "onResize"
    /\ projAspect' = IF mainCamera THEN UpdateProjectionMatrix(width, height) ELSE projAspect
    /\ mainPc' = "preResize"
    /\ UNCHANGED <<renderer, mainCamera, width, height, windowHeight, windowWidth,
                   renderTargetRTVs, targetsCreated, flashMenuToggle, lightEnabled,
                   passes, calls, resizes>>
    /\ UNCHANGED otherThanGame

\* Renderer::PreResize: every size-dependent target is released.
PreResize(targets) == [t \in DOMAIN targets |-> NoTarget]

OnResizePreSkipped ==
    /\ mainPc = "preResize"
    /\ mainPc' = "platform"
    /\ UNCHANGED <<renderer, mainCamera, width, height, projAspect, windowHeight,
                   windowWidth, renderTargetRTVs, targetsCreated, flashMenuToggle,
                   lightEnabled, passes, calls, resizes>>
    /\ UNCHANGED otherThanGame

\* OnResize, line 940: renderer->PreResize();
OnResizePre ==
    /\ mainPc = "preResize"
    /\ renderTargetRTVs' = PreResize(renderTargetRTVs)
    /\ calls' = Append(calls, "PreResize")
    /\ mainPc' = "platform"
    /\ UNCHANGED <<renderer, mainCamera, width, height, projAspect, windowHeight,
                   windowWidth, targetsCreated, flashMenuToggle, lightEnabled, passes,
                   resizes>>
    /\ UNCHANGED otherThanGame

\* OnResize, line 943: DXCore::OnResize(); the swap chain takes the stored
\* size.
OnResizePlatform ==
    /\ mainPc = "platform"
    /\ calls' = Append(calls, "DXCore::OnResize")
    /\ mainPc' = "postResize"
    /\ UNCHANGED <<renderer, mainCamera, width, height, projAspect, windowHeight,
                   windowWidth, renderTargetRTVs, targetsCreated, flashMenuToggle,
                   lightEnabled, passes, resizes>>
    /\ UNCHANGED otherThanGame

\* Renderer::PostResize(windowHeight, windowWidth, ...): the size is stored
\* and the targets are created again.
PostResize(h, w) ==
    /\ windowHeight' = h
    /\ windowWidth' = w
    /\ renderTargetRTVs' = NewTargets(h, w, targetsCreated)
    /\ targetsCreated' = targetsCreated + 1

OnResizePostSkipped ==
    /\ mainPc = "postResize"
    /\ mainPc' = "update"
    /\ UNCHANGED <<renderer, mainCamera, width, height, projAspect, windowHeight,
                   windowWidth, renderTargetRTVs, targetsCreated, flashMenuToggle,
                   lightEnabled, passes, calls, resizes>>
    /\ UNCHANGED otherThanGame

OnResizePostSwapped ==
    /\ mainPc = "postResize"
    /\ PostResize(width, height)
    /\ calls' = Append(calls, "PostResize")
    /\ mainPc' = "update"
    /\ UNCHANGED <<renderer, mainCamera, width, height, projAspect, flashMenuToggle,
                   lightEnabled, passes, resizes>>
    /\ UNCHANGED otherThanGame

\* OnResize, line 945: renderer->PostResize(this->height, this->width, ...);
OnResizePost ==
    /\ mainPc = "postResize"
    /\ PostResize(height, width)
    /\ calls' = Append(calls, "PostResize")
    /\ mainPc' = "update"
    /\ UNCHANGED <<renderer, mainCamera, width, height, projAspect, flashMenuToggle,
                   lightEnabled, passes, resizes>>
    /\ UNCHANGED otherThanGame

\* The sort keys a component of the pool's type can carry.
Keys == CASE poolType = "MeshRenderer" -> Materials
          [] poolType = "Light"        -> LightTypes
          [] OTHER                     -> {NoKey}

CanInstantiate(cap) ==
    /\ acquires < cap
    /\ Len(unallocated) = 0 => created < MaxBatches * POOL_SIZE

(***************************************************************************)
(* Spec: acquire and release on a pool of any type, including releases of  *)
(* components that are not active.                                         *)
(***************************************************************************)
Next ==
    \/ \E k \in Keys : CanInstantiate(MaxAcquires) /\ Instantiate(1, k)
    \/ \E component \in Range(allocated) : Free(component)
    \/ \E component \in Inactive : badFrees < MaxBadFrees /\ Free(component)

Spec == Init /\ [][Next]_vars

(***************************************************************************)
(* SpecSort: the two sorted pools, with the editor changing sort keys of   *)
(* bound components between acquires.                                      *)
(***************************************************************************)
InitSort == Init /\ poolType \in {"MeshRenderer", "Light"}

NextSort ==
    \/ \E k \in Keys : CanInstantiate(MaxAcquires) /\ Instantiate(1, k)
    \/ \E component \in Range(allocated) : Free(component)
    \/ \E component \in Range(allocated), m \in Materials : SetMaterial(component, m)
    \/ \E m \in Materials, b \in BOOLEAN : SetTransparent(m, b)
    \/ \E component \in Range(allocated), t \in LightTypes : SetType(component, t)

SpecSort == InitSort /\ [][NextSort]_vars

(***************************************************************************)
(* SpecQuery: a pool with the default comparator, its components enabled   *)
(* and disabled, and the enumeration queries.                              *)
(***************************************************************************)
InitQuery == Init /\ poolType = "Collider"

NextQuery ==
    \/ \E ge \in Entities : CanInstantiate(MaxAcquires) /\ Instantiate(ge, NoKey)
    \/ \E component \in Range(allocated) : Free(component)
    \/ \E component \in Range(allocated), b \in BOOLEAN : SetEnabled(component, b)
    \/ CallGetAll
    \/ CallGetAllEnabled

SpecQuery == InitQuery /\ [][NextQuery]_vars

(***************************************************************************)
(* SpecExhaust: one pool filled past a whole batch.                        *)
(***************************************************************************)
NextExhaust ==
    \/ CanInstantiate(ExhaustAcquires) /\ Instantiate(1, NoKey)
    \/ \E component \in {allocated[i] : i \in {1, Len(allocated)} \cap DOMAIN allocated} :
          releases < ExhaustReleases /\ Free(component)

SpecExhaust == InitQuery /\ [][NextExhaust]_vars

(***************************************************************************)
(* SpecRecycle: one pool filled past a whole batch, with a release of a    *)
(* component that is not active somewhere on the way.                      *)
(***************************************************************************)
NextRecycle ==
    \/ CanInstantiate(ExhaustAcquires) /\ Instantiate(1, NoKey)
    \/ \E component \in Inactive : badFrees < MaxBadFrees /\ Free(component)

SpecRecycle == InitQuery /\ [][NextRecycle]_vars

(***************************************************************************)
(* SpecCollide: colliders acquired and released, enabled and disabled,     *)
(* turned into trigger boxes and back, with the collision pass between.    *)
(***************************************************************************)
NextCollide ==
    \/ CanInstantiate(MaxAcquires) /\ Instantiate(1, NoKey)
    \/ \E component \in Range(allocated) : Free(component)
    \/ \E component \in Range(allocated), b \in BOOLEAN : SetEnabled(component, b)
    \/ \E component \in Range(allocated), b \in BOOLEAN : SetTriggerStatus(component, b)
    \/ CollisionManagerUpdate

SpecCollide == InitQuery /\ [][NextCollide]_vars

(***************************************************************************)
(* SpecLoad: the loading thread and the loading-screen thread, from their  *)
(* start in Game::Init, and the frame loop that follows Init, with the     *)
(* window resized to portrait.                                             *)
(***************************************************************************)
NextLoad ==
    \/ LoaderLoad
    \/ LoaderLock
    \/ LoaderSignal
    \/ LoaderAwait
    \/ LoaderWake
    \/ LoaderUnlock
    \/ LoaderFinish
    \/ ScreenCheck
    \/ ScreenLock
    \/ ScreenWait
    \/ ScreenWake
    \/ Tick
    \/ ScreenExpire
    \/ ScreenTimeout
    \/ ScreenDraw
    \/ ScreenClear
    \/ ScreenUnlock
    \/ ScreenNotify
    \/ MainJoinScreen
    \/ MainJoinLoader
    \/ MainFetchCameras
    \/ MainConstructRenderer
    \/ GameUpdate(<<"none", FALSE>>, FALSE, FALSE, "none")
    \/ GameDraw
    \/ WindowSized(WindowHeight, WindowWidth)
    \/ OnResizeCamera
    \/ OnResizePre
    \/ OnResizePlatform
    \/ OnResizePost

SpecLoad == InitQuery /\ [][NextLoad]_vars

(***************************************************************************)
(* SpecLoadFair: SpecLoad with the scheduling the threads get. A runnable  *)
(* thread takes its next step; time passes and a timer that is due fires;  *)
(* a thread that wants the mutex gets it among the times it is free, the   *)
(* presenter spending its waits with the mutex released.                   *)
(***************************************************************************)
FairLoad ==
    /\ WF_vars(LoaderLoad \/ LoaderFinish)
    /\ SF_vars(LoaderLock)
    /\ WF_vars(LoaderSignal)
    /\ WF_vars(LoaderAwait)
    /\ SF_vars(LoaderWake)
    /\ WF_vars(LoaderUnlock)
    /\ WF_vars(ScreenCheck)
    /\ SF_vars(ScreenLock)
    /\ WF_vars(ScreenWait)
    /\ SF_vars(ScreenWake)
    /\ WF_vars(Tick)
    /\ WF_vars(ScreenExpire)
    /\ SF_vars(ScreenTimeout)
    /\ WF_vars(ScreenDraw)
    /\ WF_vars(ScreenClear)
    /\ WF_vars(ScreenUnlock)
    /\ WF_vars(ScreenNotify)
    /\ WF_vars(MainJoinScreen)
    /\ WF_vars(MainJoinLoader)

SpecLoadFair == SpecLoad /\ FairLoad

(***************************************************************************)
(* SpecFrame: the frame loop after Game::Init has returned, with the user  *)
(* toggling the flashlight, editing lights, clicking in the Collider       *)
(* Inspector and resizing the window.                                      *)
(***************************************************************************)
\* Game::Init has returned after a load of no items.
InitFrame ==
    /\ PoolInit
    /\ poolType = "Collider"
    /\ StatusInit
    /\ ColliderInit
    /\ UiInit
    /\ assetManagerLoadState = "SINGLE_CREATION"
    /\ singleLoadComplete = FALSE
    /\ loadingMutex = "free"
    /\ notification = {}
    /\ loaderPc = "done"
    /\ screenPc = "done"
    /\ signals = 0
    /\ frames = 0
    /\ timedOut = FALSE
    /\ mainPc = "update"
    /\ renderer = TRUE
    /\ mainCamera = TRUE
    /\ width = WindowWidth
    /\ height = WindowHeight
    /\ projAspect = <<WindowWidth, WindowHeight>>
    /\ windowHeight = WindowHeight
    /\ windowWidth = WindowWidth
    /\ renderTargetRTVs = NewTargets(WindowHeight, WindowWidth, 0)
    /\ targetsCreated = 1
    /\ flashMenuToggle = FALSE
    /\ lightEnabled = [l \in ShadowLights |-> TRUE]
    /\ passes = <<>>
    /\ calls = <<>>
    /\ resizes = 0

NextFrame ==
    \/ \E edit \in LightEdits, menu \in BOOLEAN, pressed \in BOOLEAN, click \in UiClicks :
          GameUpdate(edit, menu, pressed, click)
    \/ GameDraw
    \/ \E w \in Sides, h \in Sides : WindowSized(w, h)
    \/ OnResizeCamera
    \/ OnResizePre
    \/ OnResizePlatform
    \/ OnResizePost

SpecFrame == InitFrame /\ [][NextFrame]_vars

(***************************************************************************)
(* Properties of the pool.                                                 *)
(***************************************************************************)
\* Every Free so far was passed a component of the active sequence.
ContractKept == badFrees = 0

\* C1: as long as every Free was passed an active component, GetActiveCount()
\* equals the number of Instantiate calls not yet matched by a Free.
C1_ActiveCountIsUnmatchedAcquires ==
    ContractKept => GetActiveCount = acquires - releases

C1_Witness ==
    /\ ContractKept
    /\ acquires = MaxAcquires
    /\ releases >= 1
    /\ GetActiveCount = acquires - releases
    /\ GetActiveCount >= 1

IsTransparentAt(i) == transparent[key[allocated[i]]]

\* C3: immediately after every Instantiate on the MeshRenderer pool, no entry
\* with a transparent material precedes one with an opaque material, and
\* entries of equal transparency are non-decreasing by material identity, for
\* the keys the renderers have at that moment.
C3_RenderersOrderedAfterInstantiate ==
    (lastOp = "Instantiate" /\ poolType = "MeshRenderer" /\ ~crashed) =>
        \A i, j \in 1..Len(allocated) :
            i < j =>
                /\ ~(IsTransparentAt(i) /\ ~IsTransparentAt(j))
                /\ (IsTransparentAt(i) = IsTransparentAt(j))
                       => key[allocated[i]] <= key[allocated[j]]

C3_Witness ==
    /\ lastOp = "Instantiate"
    /\ poolType = "MeshRenderer"
    /\ repaired
    /\ Len(allocated) = 3
    /\ ~IsTransparentAt(1)
    /\ IsTransparentAt(3)
    /\ \E i \in 1..2 : /\ IsTransparentAt(i) = IsTransparentAt(i + 1)
                       /\ key[allocated[i]] < key[allocated[i + 1]]

\* C4: immediately after every Instantiate on the Light pool, the active
\* sequence is non-increasing by light type, so each type is one contiguous
\* group and the groups are in descending type value.
C4_LightsOrderedAfterInstantiate ==
    (lastOp = "Instantiate" /\ poolType = "Light" /\ ~crashed) =>
        \A i, j \in 1..Len(allocated) :
            i < j => key[allocated[i]] >= key[allocated[j]]

C4_Witness ==
    /\ lastOp = "Instantiate"
    /\ poolType = "Light"
    /\ repaired
    /\ Len(allocated) = 3
    /\ key[allocated[1]] > key[allocated[2]]
    /\ key[allocated[2]] > key[allocated[3]]

\* C5: an Instantiate made while the free queue is empty creates exactly
\* POOL_SIZE new instances and binds the first of them, leaving POOL_SIZE - 1
\* free; an Instantiate made while the free queue is not empty creates none.
C5_OneBatchOnExhaustion ==
    [][acquires' = acquires + 1 =>
          IF Len(unallocated) = 0
          THEN /\ created' = created + POOL_SIZE
               /\ lastArg' = created + 1
               /\ unallocated' = [i \in 1..(POOL_SIZE - 1) |-> created + 1 + i]
          ELSE /\ created' = created
               /\ lastArg' = Head(unallocated)
               /\ unallocated' = Tail(unallocated)]_vars

C5_Witness ==
    /\ lastOp = "Instantiate"
    /\ created = 2 * POOL_SIZE
    /\ Len(unallocated) = POOL_SIZE - 1
    /\ Len(allocated) = POOL_SIZE + 1

\* C6: Free(h) on an active component h unbinds h and no other component,
\* takes the one entry h out of the active sequence leaving the others in
\* place, and appends h to the free queue.
C6_FreeReleasesExactlyThatComponent ==
    [][\A h \in Range(allocated) :
          (ContractKept /\ lastOp' = "Free" /\ lastArg' = h /\ releases' = releases + 1) =>
              /\ gameEntity'[h] = NoEntity
              /\ \A c \in DOMAIN gameEntity : c # h => gameEntity'[c] = gameEntity[c]
              /\ \E i \in 1..Len(allocated) :
                    /\ allocated[i] = h
                    /\ allocated' = SubSeq(allocated, 1, i - 1)
                                      \o SubSeq(allocated, i + 1, Len(allocated))
              /\ ~InSeq(h, allocated')
              /\ unallocated' = Append(unallocated, h)]_vars

C6_Witness ==
    /\ ContractKept
    /\ lastOp = "Free"
    /\ releases >= 1
    /\ Len(allocated) = 2
    /\ lastArg < allocated[1]
    /\ InSeq(lastArg, unallocated)
    /\ gameEntity[lastArg] = NoEntity

\* C7: Free of a component that is not in the active sequence leaves the
\* active sequence and the free queue as they were.
C7_FreeOfInactiveChangesNothing ==
    [][badFrees' = badFrees + 1 =>
          (allocated' = allocated /\ unallocated' = unallocated)]_vars

\* The positions of the active sequence that hold an enabled component.
EnabledPositions == {i \in 1..Len(allocated) : IsEnabled(allocated[i])}

\* s lists the entries of the active sequence at the positions P, in order.
ListsPositions(s, P) ==
    /\ Len(s) = Cardinality(P)
    /\ \E f \in [1..Len(s) -> P] :
          /\ \A a, b \in 1..Len(s) : a < b => f[a] < f[b]
          /\ \A a \in 1..Len(s) : s[a] = allocated[f[a]]

\* The pool's state other than the history of calls.
poolState == <<allocated, unallocated, gameEntity, enabled, hierarchyIsEnabled,
               key, transparent, created>>

\* C8: GetAllEnabled() returns the entries of the active sequence whose
\* component is enabled, each once and in the order of the active sequence;
\* GetAll() returns the active sequence; neither changes the pool.
C8_QueriesReturnActiveEntries ==
    /\ [](lastOp = "GetAllEnabled" => ListsPositions(ret, EnabledPositions))
    /\ [](lastOp = "GetAll" => ret = allocated)
    /\ [][lastOp' \in {"GetAll", "GetAllEnabled"} => UNCHANGED poolState]_vars

C8_Witness ==
    /\ lastOp = "GetAllEnabled"
    /\ Len(allocated) = 3
    /\ ~IsEnabled(allocated[2])
    /\ ret = <<allocated[1], allocated[3]>>

(***************************************************************************)
(* Properties of the loading handshake.                                    *)
(***************************************************************************)
\* C9: as long as no wait of the presenter has timed out, each signal of the
\* loader is followed by exactly one presented frame, and when the load state
\* has left INITIALIZING the frames presented equal the signals issued.
C9_OneFramePerSignal ==
    ~timedOut =>
        /\ frames <= signals
        /\ signals <= frames + 1
        /\ assetManagerLoadState # "INITIALIZING" => frames = signals

C9_Witness ==
    /\ ~timedOut
    /\ assetManagerLoadState # "INITIALIZING"
    /\ signals = MaxItems
    /\ frames = MaxItems
    /\ screenPc = "done"

\* C10: the loader signals an item only when the flag is clear and every
\* earlier item has had its frame; the flag is cleared only by the presenter,
\* after the frame of the signalled item; at most one item is signalled and
\* not yet presented.
C10_AtMostOneOutstanding ==
    /\ [](signals - frames \in {0, 1})
    /\ [](singleLoadComplete => signals >= 1 /\ frames >= signals - 1)
    /\ [][signals' = signals + 1 => (~singleLoadComplete /\ frames = signals)]_vars
    /\ [][(singleLoadComplete /\ ~singleLoadComplete') =>
              (screenPc = "clear" /\ frames = signals)]_vars

C10_Witness ==
    /\ timedOut
    /\ signals = 2
    /\ frames = 1
    /\ singleLoadComplete
    /\ screenPc = "draw"
    /\ loaderPc = "blocked"

\* The threads that are issuing GPU work: the loader while it loads an item,
\* the presenter while it clears, draws and presents.
GpuUsers ==
    (IF loaderPc = "load" THEN {"loader"} ELSE {})
        \cup (IF screenPc = "draw" THEN {"screen"} ELSE {})

\* C11: the loader and the presenter never issue GPU work at the same time;
\* the presenter issues its frame only while it holds the loading mutex with
\* the flag set, and the loader is then waiting inside SetLoadedAndWait, in
\* every interleaving, timeouts included.
C11_GpuNeverShared ==
    /\ Cardinality(GpuUsers) <= 1
    /\ screenPc = "draw" =>
          /\ loadingMutex = "screen"
          /\ singleLoadComplete
          /\ loaderPc \in {"blocked", "woken"}

C11_Witness ==
    /\ screenPc = "draw"
    /\ loaderPc = "woken"
    /\ timedOut
    /\ signals = 2

\* C12: a wait of the presenter lasts at most WaitForMs and times out only
\* then; a wait that timed out with the flag clear presents no frame, leaves
\* the flag, the signals and the load state as they are, and goes back to the
\* test of the load state; no signal is lost: when both threads are done
\* every signal has had its frame.
C12_TimeoutOnlyRechecks ==
    /\ [](screenPc \in {"blocked", "woken"} => waited <= WaitForMs)
    /\ [][(screenPc # "expired" /\ screenPc' = "expired") => waited = WaitForMs]_vars
    /\ [][(screenPc = "expired" /\ screenPc' # "expired" /\ ~singleLoadComplete) =>
              (screenPc' = "clear" /\ frames' = frames)]_vars
    /\ [][(screenPc = "clear" /\ screenPc' # "clear" /\ ~singleLoadComplete) =>
              UNCHANGED <<singleLoadComplete, signals, frames, assetManagerLoadState,
                          loaderPc, errorCode>>]_vars
    /\ [][frames' # frames => (singleLoadComplete /\ screenPc = "draw")]_vars
    /\ [][screenPc' = "done" => screenPc \in {"check", "done"}]_vars
    /\ []((loaderPc = "done" /\ screenPc = "done") => frames = signals)

C12_Witness ==
    /\ timedOut
    /\ waited = WaitForMs
    /\ loaderPc = "done"
    /\ screenPc = "done"
    /\ signals = MaxItems
    /\ frames = MaxItems

C14_RendererAfterLoad ==
    /\ renderer =>
          /\ assetManagerLoadState # "INITIALIZING"
          /\ loaderPc = "done"
          /\ screenPc = "done"
          /\ mainCamera
    /\ mainPc \in {"fetch", "construct"} => (loaderPc = "done" /\ screenPc = "done")
    /\ mainCamera => (loaderPc = "done" /\ screenPc = "done")
    /\ (mainPc = "draw" \/ passes # <<>>) => renderer

C14_Witness ==
    /\ renderer
    /\ passes # <<>>
    /\ signals = MaxItems
    /\ timedOut

\* C15: with every item finishing, both threads terminate and Game::Init
\* gets past both joins; the presenter leaves its loop only when the load
\* state has left INITIALIZING, and the loader is then not inside
\* SetLoadedAndWait.
C15_BothThreadsJoin ==
    /\ <>(loaderPc = "done" /\ screenPc = "done" /\ mainPc \notin {"joinScreen", "joinLoader"})
    /\ [](screenPc = "done" => assetManagerLoadState # "INITIALIZING")
    /\ [](screenPc = "done" => loaderPc = "done")

C15_Witness ==
    /\ mainPc = "fetch"
    /\ loaderPc = "done"
    /\ screenPc = "done"
    /\ signals = MaxItems
    /\ timedOut

(***************************************************************************)
(* Properties of the frame loop.                                           *)
(***************************************************************************)
\* A frame has just been drawn.
Drawn == mainPc = "update" /\ passes # <<>>

\* The pass p was issued in the current frame.
Issued(p) == \E i \in 1..Len(passes) : passes[i] = p

\* C16: the passes of a frame are the shadow passes, then the depth
\* pre-pass, the main color pass, the SSAO pass, the composite pass and the
\* present, in this order; the shadow pass of every enabled shadow-casting
\* light is among the shadow passes of the frame.
C16_PassesInFixedOrder ==
    Drawn =>
        \E n \in 0..Len(passes) :
            /\ SubSeq(passes, n + 1, Len(passes)) = RendererDraw
            /\ \A i \in 1..n : passes[i] \in ShadowLights
            /\ \A l \in ShadowLights : lightEnabled[l] => \E i \in 1..n : passes[i] = l

C16_Witness ==
    /\ Drawn
    /\ flashMenuToggle
    /\ passes = <<"FLASHLIGHT_SHADOW", "ENV_SHADOW">> \o RendererDraw

\* C17: in every frame the shadow pass of a shadow-casting light is issued
\* only if that light is enabled.
C17_ShadowPassOnlyIfEnabled ==
    Drawn => \A l \in ShadowLights : Issued(l) => lightEnabled[l]

\* The calls of one OnResize.
ResizeOrder == <<"PreResize", "DXCore::OnResize", "PostResize">>

\* The renderer holds no size-dependent target.
Released == \A t \in RTVTypes : renderTargetRTVs[t] = NoTarget

\* C18: the calls of a resize are PreResize, the platform resize,
\* PostResize, in this order and each once; the platform resize and
\* PostResize run with the targets released.
C18_ResizeOrder ==
    /\ \E n \in 0..Len(ResizeOrder) : calls = SubSeq(ResizeOrder, 1, n)
    /\ (mainPc \in {"update", "draw"} /\ resizes > 0) => calls = ResizeOrder
    /\ mainPc \in {"platform", "postResize"} => Released

C18_Witness ==
    /\ mainPc = "update"
    /\ resizes = MaxResizes
    /\ calls = ResizeOrder
    /\ ~Released

\* C19: after the PreResize and PostResize(h, w) of a resize every
\* size-dependent target has height h and width w, as has the renderer, and
\* every target the renderer holds was created by that PostResize; the
\* pair repeated with the size the renderer already has leaves the sizes of
\* the renderer and of its targets as they were.
C19_TargetsHaveNewSize ==
    /\ []((mainPc \in {"update", "draw"} /\ resizes > 0) =>
            /\ windowHeight = height
            /\ windowWidth = width
            /\ \A t \in RTVTypes :
                  /\ renderTargetRTVs[t] # NoTarget
                  /\ renderTargetRTVs[t].height = height
                  /\ renderTargetRTVs[t].width = width
                  /\ renderTargetRTVs[t].id = targetsCreated
            /\ targetsCreated = resizes + 1)
    /\ [][(mainPc = "postResize" /\ mainPc' = "update"
              /\ windowHeight = height /\ windowWidth = width) =>
              /\ windowHeight' = windowHeight
              /\ windowWidth' = windowWidth
              /\ \A t \in RTVTypes :
                    /\ renderTargetRTVs'[t].height = windowHeight
                    /\ renderTargetRTVs'[t].width = windowWidth]_vars

C19_Witness ==
    /\ mainPc = "update"
    /\ resizes = MaxResizes
    /\ height = WindowWidth
    /\ width = WindowHeight
    /\ \A t \in RTVTypes : renderTargetRTVs[t] = [height |-> WindowWidth,
                                                  width |-> WindowHeight,
                                                  id |-> MaxResizes + 1]

\* C20: when a frame is drawn after a resize, the aspect ratio of the main
\* camera is width / height of the render targets.
C20_CameraMatchesTargets ==
    (mainPc = "draw" /\ resizes > 0) =>
        \A t \in RTVTypes :
            /\ renderTargetRTVs[t] # NoTarget
            /\ projAspect[1] * renderTargetRTVs[t].height
                   = projAspect[2] * renderTargetRTVs[t].width

C20_Witness ==
    /\ mainPc = "draw"
    /\ resizes = 1
    /\ projAspect = <<WindowHeight, WindowWidth>>
    /\ windowWidth = WindowHeight
    /\ windowHeight = WindowWidth

C22_OnlyInstantiateSorts ==
    [][/\ lastOp' \in {"SetMaterial", "SetTransparent", "SetType"}
            => allocated' = allocated
       /\ lastOp' = "Free"
            => \E i \in 1..Len(allocated) :
                  /\ allocated[i] = lastArg'
                  /\ allocated' = SubSeq(allocated, 1, i - 1)
                                     \o SubSeq(allocated, i + 1, Len(allocated))]_vars

\* A key was changed, a component was then released, and the remaining active
\* components are still out of order.
C22_Witness ==
    /\ lastOp = "Free"
    /\ Len(allocated) >= 2
    /\ allocated \notin Sort(poolType, allocated, key, transparent)

InOnResize == mainPc \in {"onResize", "preResize", "platform", "postResize"}

\* C24: no Draw is issued between a PreResize and its PostResize. From its
\* entry to its return OnResize is the only thing the frame thread does, no
\* pass is issued meanwhile, and whenever Draw runs the size-dependent render
\* targets exist and the last resize has made all three of its calls.
C24_NoDrawInsideResize ==
    /\ [](mainPc = "draw" => (~Released /\ calls \in {<<>>, ResizeOrder}))
    /\ [][InOnResize => (passes' = passes /\ (InOnResize' \/ mainPc' = "update"))]_vars
    /\ [][(mainPc = "draw" /\ mainPc' = "update") =>
             (~Released /\ ~Released' /\ calls' = calls)]_vars

\* A resize has completed and the Draw of the next frame is about to run.
C24_Witness ==
    /\ mainPc = "draw"
    /\ passes = <<>>
    /\ calls = ResizeOrder
    /\ resizes = MaxResizes
    /\ ~Released

\* C25: while every Free is passed an active component, the active sequence
\* and the free queue together hold 32 instances per batch allocated, and
\* every instance created is in exactly one place of the two containers.
C25_EveryInstanceInOnePlace ==
    ContractKept =>
        /\ \E batches \in 0..MaxBatches :
              /\ created = POOL_SIZE * batches
              /\ Len(allocated) + Len(unallocated) = POOL_SIZE * batches
        /\ \A c \in 1..created : Count(c, allocated) + Count(c, unallocated) = 1

\* Two batches exist, components were released on the way, and both
\* containers hold instances.
C25_Witness ==
    /\ ContractKept
    /\ created = 2 * POOL_SIZE
    /\ releases = ExhaustReleases
    /\ Len(allocated) = POOL_SIZE
    /\ Len(unallocated) = POOL_SIZE

\* The ordering invariant of the pool's type on the sequence s under the keys
\* k and the transparency flags tr: renderers opaque before transparent and
\* by material within each group, lights by type downwards.
OrderedBy(s, k, tr) ==
    \A i, j \in 1..Len(s) :
        i < j =>
            IF poolType = "MeshRenderer"
            THEN /\ tr[k[s[i]]] => tr[k[s[j]]]
                 /\ (tr[k[s[i]]] = tr[k[s[j]]]) => k[s[i]] <= k[s[j]]
            ELSE poolType = "Light" => k[s[i]] >= k[s[j]]

\* C26: Free of an active component of a MeshRenderer or Light pool whose
\* active sequence satisfies the ordering invariant leaves the active
\* sequence satisfying it.
C26_FreeKeepsOrder ==
    [][(/\ lastOp' = "Free"
        /\ InSeq(lastArg', allocated)
        /\ OrderedBy(allocated, key, transparent))
          => OrderedBy(allocated', key', transparent')]_vars

\* A renderer was released from between others; an opaque renderer and a
\* transparent one of another material remain, in this order.
C26_Witness ==
    /\ poolType = "MeshRenderer"
    /\ lastOp = "Free"
    /\ acquires = MaxAcquires
    /\ Len(allocated) = 2
    /\ allocated[1] > allocated[2]
    /\ ~transparent[key[allocated[1]]]
    /\ transparent[key[allocated[2]]]
    /\ OrderedBy(allocated, key, transparent)

\* C27: after every Game::Update the flashlight is enabled exactly if
\* flashMenuToggle is set, whatever the light editor wrote in that Update; so
\* in every frame drawn the flashlight's shadow pass is issued exactly if the
\* flashlight is enabled, and an Update moves the flashlight's shadow camera
\* only if the toggle is set.
C27_FlashlightFollowsToggle ==
    /\ (mainPc = "draw" \/ Drawn) =>
          /\ lightEnabled["FLASHLIGHT_SHADOW"] = flashMenuToggle
          /\ flashShadowCameraMoved => flashMenuToggle
    /\ Drawn => (Issued("FLASHLIGHT_SHADOW") <=> lightEnabled["FLASHLIGHT_SHADOW"])

\* A frame drawn with the flashlight on, its shadow camera moved and its
\* shadow pass issued, after the light editor has disabled the other light.
C27_Witness ==
    /\ Drawn
    /\ flashMenuToggle
    /\ flashShadowCameraMoved
    /\ lightEnabled["FLASHLIGHT_SHADOW"]
    /\ ~lightEnabled["ENV_SHADOW"]
    /\ Issued("FLASHLIGHT_SHADOW")

C29_TransformsOnlyWithColliders ==
    (Drawn /\ collidersWindowEnabled) => (drawColliderTransforms => drawColliders)

\* C30: one CollisionManager::Update evaluates Intersects exactly once for
\* each pair (a, b) of distinct enabled active colliders with a not a trigger
\* and b a trigger box, and for no other pair: not for a collider with itself,
\* not with a disabled collider, not twice.
C30_EachPairTestedOnce ==
    lastOp = "CollisionManager::Update" =>
        /\ \A n \in 1..Len(ret) : ret[n] \in (1..created) \X (1..created)
        /\ \A a, b \in 1..created :
              Count(<<a, b>>, ret) =
                  IF /\ a # b
                     /\ InSeq(a, allocated) /\ IsEnabled(a)
                     /\ InSeq(b, allocated) /\ IsEnabled(b)
                     /\ a \notin isTrigger
                     /\ b \in isTrigger
                  THEN 1
                  ELSE 0

\* An Update over three active colliders, one of them disabled and one a
\* trigger box: the one pair of the other two was tested.
C30_Witness ==
    /\ lastOp = "CollisionManager::Update"
    /\ Len(allocated) = 3
    /\ \E a, b, c \in Range(allocated) :
          /\ a \notin isTrigger /\ IsEnabled(a)
          /\ b \in isTrigger /\ IsEnabled(b)
          /\ c \in isTrigger /\ ~IsEnabled(c)
          /\ ret = << <<a, b>> >>

====
